---- MODULE Spec2Model ----
(***************************************************************************)
(* Model of ChessAnalyzer (src/analyze_chess.py): parse_pgn, parse_game    *)
(* and get_statistics.                                                     *)
(*                                                                         *)
(* Python values are wrapped so that values of different Python types can  *)
(* be compared: None, Str(s) (s a sequence of one-character strings),      *)
(* IntV(n), DateTime(y, m, d), NaN.  A raised exception that has not been   *)
(* caught yet is the value Raise(kind).                                    *)
(*                                                                         *)
(* The file text is a sequence of tokens: Lit(c) for a newline, a blank,   *)
(* the literal "[Event" or a line of movetext; EventRest(v) for the        *)
(* remainder ' "v"]' of an Event tag line; TagLine(t, v) for a whole tag   *)
(* line '[t "v"]' of any other tag.                                        *)
(***************************************************************************)
EXTENDS Integers, Sequences, FiniteSets, TLC

VARIABLES
    content,     \* the text of self.pgn_file
    game_texts,  \* parse_pgn: the list returned by re.split
    i,           \* parse_pgn: the loop index (1-based)
    games,       \* self.games
    pc,          \* "new", "parsing", "parsed", "done", or "parse_pgn_raised" /
                 \* "get_statistics_raised" once an exception has left the method
    stats,       \* the summary returned by get_statistics (None before)
    df,          \* the record table returned by get_statistics (None before)
    raised,      \* the exception that left a method uncaught (None if none)
    runs         \* how many times parse_pgn has been called

vars == <<content, game_texts, i, games, pc, stats, df, raised, runs>>

----------------------------------------------------------------------------
(* Bounds of the model *)

MaxBlocks == 2
MaxRuns == 2

----------------------------------------------------------------------------
(* Python values *)

None == [none |-> TRUE]
NaN == [nan |-> TRUE]
Str(s) == [str |-> s]
IntV(n) == [int |-> n]
DateTime(y, m, d) == [datetime |-> <<y, m, d>>]
Raise(kind) == [raise |-> kind]

IsStr(v) == DOMAIN v = {"str"}
IsInt(v) == DOMAIN v = {"int"}
IsRaise(v) == DOMAIN v = {"raise"}

\* bool(v) for the values the code tests: None and '' are false
Truthy(v) == v # None /\ v # Str(<< >>)

username == <<"C", "a", "s", "s", "i", "n", "y">>

white == Str(<<"w", "h", "i", "t", "e">>)
black == Str(<<"b", "l", "a", "c", "k">>)
win == Str(<<"w", "i", "n">>)
loss == Str(<<"l", "o", "s", "s">>)
draw == Str(<<"d", "r", "a", "w">>)
bullet == Str(<<"b", "u", "l", "l", "e", "t">>)
blitz == Str(<<"b", "l", "i", "t", "z">>)
rapid == Str(<<"r", "a", "p", "i", "d">>)
classical == Str(<<"c", "l", "a", "s", "s", "i", "c", "a", "l">>)
unknown == Str(<<"u", "n", "k", "n", "o", "w", "n">>)
WhiteWins == Str(<<"1", "-", "0">>)
BlackWins == Str(<<"0", "-", "1">>)
Dash == Str(<<"-">>)

----------------------------------------------------------------------------
(* Text tokens *)

Lit(c) == [lit |-> c]
EventRest(v) == [rest |-> v]
TagLine(t, v) == [tag |-> t, val |-> v]

NL == Lit("\n")
SP == Lit(" ")
EventLit == Lit("[Event")
Moves == Lit("1. e4 e5")

IsSpace(tok) == tok = NL \/ tok = SP

\* str.strip() leaves the empty string
IsBlank(text) == \A k \in 1..Len(text) : IsSpace(text[k])

----------------------------------------------------------------------------
(* re.split(r'\n\n\[Event', content) *)

Separator == <<NL, NL, EventLit>>

SepAt(text, k) == k + 2 <= Len(text) /\ SubSeq(text, k, k + 2) = Separator

RECURSIVE ReSplit(_)
ReSplit(text) ==
    IF \E k \in 1..Len(text) : SepAt(text, k)
    THEN LET k == CHOOSE j \in 1..Len(text) :
                      SepAt(text, j) /\ \A h \in 1..(j - 1) : ~SepAt(text, h)
         IN <<SubSeq(text, 1, k - 1)>> \o ReSplit(SubSeq(text, k + 3, Len(text)))
    ELSE <<text>>

----------------------------------------------------------------------------
(* re.search(pattern, game_text) for the 13 tag patterns *)

\* the pattern's group ([^"]+) needs at least one character
MatchesTag(tok, t) == DOMAIN tok = {"tag", "val"} /\ tok.tag = t /\ Len(tok.val) > 0

SearchTag(game_text, t) ==
    IF \E k \in 1..Len(game_text) : MatchesTag(game_text[k], t)
    THEN LET k == CHOOSE j \in 1..Len(game_text) :
                      MatchesTag(game_text[j], t)
                      /\ \A h \in 1..(j - 1) : ~MatchesTag(game_text[h], t)
         IN Str(game_text[k].val)
    ELSE None

EventAt(game_text, k) ==
    /\ k + 1 <= Len(game_text)
    /\ game_text[k] = EventLit
    /\ DOMAIN game_text[k + 1] = {"rest"}
    /\ Len(game_text[k + 1].rest) > 0

SearchEvent(game_text) ==
    IF \E k \in 1..Len(game_text) : EventAt(game_text, k)
    THEN LET k == CHOOSE j \in 1..Len(game_text) :
                      EventAt(game_text, j) /\ \A h \in 1..(j - 1) : ~EventAt(game_text, h)
         IN Str(game_text[k + 1].rest)
    ELSE None

ExtractTags(game_text) ==
    [event |-> SearchEvent(game_text),
     date |-> SearchTag(game_text, "UTCDate"),
     white |-> SearchTag(game_text, "White"),
     black |-> SearchTag(game_text, "Black"),
     result |-> SearchTag(game_text, "Result"),
     white_elo |-> SearchTag(game_text, "WhiteElo"),
     black_elo |-> SearchTag(game_text, "BlackElo"),
     white_rating_diff |-> SearchTag(game_text, "WhiteRatingDiff"),
     black_rating_diff |-> SearchTag(game_text, "BlackRatingDiff"),
     time_control |-> SearchTag(game_text, "TimeControl"),
     eco |-> SearchTag(game_text, "ECO"),
     opening |-> SearchTag(game_text, "Opening"),
     termination |-> SearchTag(game_text, "Termination")]

----------------------------------------------------------------------------
(* int(s) on a str *)

Digits == {"0", "1", "2", "3", "4", "5", "6", "7", "8", "9"}

DigitVal(c) ==
    CASE c = "0" -> 0 [] c = "1" -> 1 [] c = "2" -> 2 [] c = "3" -> 3 [] c = "4" -> 4
      [] c = "5" -> 5 [] c = "6" -> 6 [] c = "7" -> 7 [] c = "8" -> 8 [] c = "9" -> 9

\* s.strip(): int() ignores surrounding whitespace
RECURSIVE PyStrip(_)
PyStrip(s) ==
    IF s = << >> THEN s
    ELSE IF Head(s) = " " THEN PyStrip(Tail(s))
    ELSE IF s[Len(s)] = " " THEN PyStrip(SubSeq(s, 1, Len(s) - 1))
    ELSE s

\* digits, single underscores allowed between two digits
IsDigitString(s) ==
    /\ Len(s) > 0
    /\ \A k \in 1..Len(s) : s[k] \in Digits \cup {"_"}
    /\ s[1] # "_" /\ s[Len(s)] # "_"
    /\ \A k \in 1..(Len(s) - 1) : ~(s[k] = "_" /\ s[k + 1] = "_")

RECURSIVE DigitsValue(_)
DigitsValue(s) ==
    IF s = << >> THEN 0
    ELSE LET front == SubSeq(s, 1, Len(s) - 1)
             last == s[Len(s)]
         IN IF last = "_" THEN DigitsValue(front)
            ELSE 10 * DigitsValue(front) + DigitVal(last)

\* int(s): IntV(n), or Raise("ValueError") for an invalid literal
PyIntOf(s) ==
    LET t == PyStrip(s)
        signed == Len(t) > 0 /\ t[1] \in {"+", "-"}
        body == IF signed THEN Tail(t) ELSE t
    IN IF IsDigitString(body)
       THEN IntV(IF signed /\ t[1] = "-" THEN 0 - DigitsValue(body) ELSE DigitsValue(body))
       ELSE Raise("ValueError")

----------------------------------------------------------------------------
(* s.split(sep) for a one-character separator *)

RECURSIVE PySplit(_, _)
PySplit(s, sep) ==
    IF \E k \in 1..Len(s) : s[k] = sep
    THEN LET k == CHOOSE j \in 1..Len(s) : s[j] = sep /\ \A h \in 1..(j - 1) : s[h] # sep
         IN <<SubSeq(s, 1, k - 1)>> \o PySplit(SubSeq(s, k + 1, Len(s)), sep)
    ELSE <<s>>

----------------------------------------------------------------------------
(* datetime.strptime(s, '%Y.%m.%d') *)

AllDigits(s) == \A k \in 1..Len(s) : s[k] \in Digits

\* %Y is \d\d\d\d
IsYearField(s) == Len(s) = 4 /\ AllDigits(s)

\* %m is 1[0-2]|0[1-9]|[1-9]
IsMonthField(s) ==
    /\ Len(s) \in {1, 2}
    /\ AllDigits(s)
    /\ DigitsValue(s) \in 1..12

\* %d is 3[01]|[12]\d|0[1-9]|[1-9]| [1-9]
IsDayField(s) ==
    \/ Len(s) \in {1, 2} /\ AllDigits(s) /\ DigitsValue(s) \in 1..31
    \/ Len(s) = 2 /\ s[1] = " " /\ s[2] \in Digits \ {"0"}

IsLeap(y) == y % 4 = 0 /\ (y % 100 # 0 \/ y % 400 = 0)

DaysInMonth(y, m) ==
    IF m = 2 THEN (IF IsLeap(y) THEN 29 ELSE 28)
    ELSE IF m \in {4, 6, 9, 11} THEN 30 ELSE 31

Strptime(s) ==
    LET parts == PySplit(s, ".")
    IN IF Len(parts) = 3 /\ IsYearField(parts[1]) /\ IsMonthField(parts[2])
          /\ IsDayField(parts[3])
       THEN LET y == DigitsValue(parts[1])
                m == DigitsValue(parts[2])
                d == DigitsValue(PyStrip(parts[3]))
            IN IF y >= 1 /\ d <= DaysInMonth(y, m)
               THEN DateTime(y, m, d)
               ELSE Raise("ValueError")
       ELSE Raise("ValueError")

----------------------------------------------------------------------------
(* parse_game *)

BulletBelow == 180
BlitzBelow == 480
RapidBelow == 1500

\* DetermineColor with the outcome table of the white branch pasted into the
\* black branch
DetermineColorSameTable(game) ==
    IF game.white = Str(username) \/ game.black = Str(username)
    THEN LET asWhite == game.white = Str(username)
         IN [my_color |-> IF asWhite THEN white ELSE black,
             my_elo |-> IF asWhite THEN game.white_elo ELSE game.black_elo,
             opp_elo |-> IF asWhite THEN game.black_elo ELSE game.white_elo,
             rating_diff |-> IF asWhite THEN game.white_rating_diff
                             ELSE game.black_rating_diff,
             outcome |-> IF game.result = WhiteWins THEN win
                         ELSE IF game.result = BlackWins THEN loss
                         ELSE draw] @@ game
    ELSE None

\* lines 82-108: my_color, my_elo, opp_elo, rating_diff, outcome; None when
\* the username is neither game['white'] nor game['black']
DetermineColor(game) ==
    IF game.white = Str(username)
    THEN [my_color |-> white,
          my_elo |-> game.white_elo,
          opp_elo |-> game.black_elo,
          rating_diff |-> game.white_rating_diff,
          outcome |-> IF game.result = WhiteWins THEN win
                      ELSE IF game.result = BlackWins THEN loss
                      ELSE draw] @@ game
    ELSE IF game.black = Str(username)
    THEN [my_color |-> black,
          my_elo |-> game.black_elo,
          opp_elo |-> game.white_elo,
          rating_diff |-> game.black_rating_diff,
          outcome |-> IF game.result = BlackWins THEN win
                      ELSE IF game.result = WhiteWins THEN loss
                      ELSE draw] @@ game
    ELSE None

\* one "if game[k]: game[k] = int(game[k])"
ConvertField(v) == IF Truthy(v) THEN PyIntOf(v.str) ELSE v

\* lines 111-116; the first failing int() raises out of the block
ConvertNumeric(game) ==
    LET my == ConvertField(game.my_elo)
        opp == ConvertField(game.opp_elo)
        diff == ConvertField(game.rating_diff)
    IN IF IsRaise(my) THEN my
       ELSE IF IsRaise(opp) THEN opp
       ELSE IF IsRaise(diff) THEN diff
       ELSE [game EXCEPT !.my_elo = my, !.opp_elo = opp, !.rating_diff = diff]

\* lines 119-123: the key 'datetime' is set only under "if game['date']"
ParseDate(game) ==
    IF Truthy(game.date)
    THEN LET dt == Strptime(game.date.str)
         IN ("datetime" :> (IF IsRaise(dt) THEN None ELSE dt)) @@ game
    ELSE game

\* TimeCategory with "<=" for "<" in the three comparisons
TimeCategoryInclusive(time_control) ==
    IF Truthy(time_control) /\ time_control # Dash
    THEN LET base_time == PyIntOf(PySplit(time_control.str, "+")[1])
         IN IF IsRaise(base_time) THEN base_time
            ELSE IF base_time.int <= BulletBelow THEN bullet
            ELSE IF base_time.int <= BlitzBelow THEN blitz
            ELSE IF base_time.int <= RapidBelow THEN rapid
            ELSE classical
    ELSE unknown

\* lines 126-141: the category, or the ValueError of int(tc_parts[0])
TimeCategory(time_control) ==
    IF Truthy(time_control) /\ time_control # Dash
    THEN LET tc_parts == PySplit(time_control.str, "+")
         IN IF Len(tc_parts) >= 1
            THEN LET base_time == PyIntOf(tc_parts[1])
                 IN IF IsRaise(base_time) THEN base_time
                    ELSE IF base_time.int < BulletBelow THEN bullet
                    ELSE IF base_time.int < BlitzBelow THEN blitz
                    ELSE IF base_time.int < RapidBelow THEN rapid
                    ELSE classical
            ELSE unknown
    ELSE unknown

CategorizeTimeControl(game) ==
    LET cat == TimeCategory(game.time_control)
    IN IF IsRaise(cat) THEN cat ELSE ("time_category" :> cat) @@ game

\* the body of the try block, lines 55-143: a record, None, or the exception
ParseGameBody(game_text) ==
    LET coloured == DetermineColor(ExtractTags(game_text))
    IN IF coloured = None THEN None
       ELSE LET converted == ConvertNumeric(coloured)
            IN IF IsRaise(converted) THEN converted
               ELSE CategorizeTimeControl(ParseDate(converted))

\* parse_game without its try/except
ParseGameUncaught(game_text) == ParseGameBody(game_text)

\* lines 54, 145-147: "except Exception" prints and returns None
ParseGame(game_text) ==
    LET game == ParseGameBody(game_text)
    IN IF IsRaise(game) THEN None ELSE game

----------------------------------------------------------------------------
(* pandas: DataFrame(self.games), column counts, ratios *)

Columns(rows) == UNION {DOMAIN rows[k] : k \in 1..Len(rows)}

\* a row per record, a column per key of any record; a missing key reads NaN
DataFrame(rows) ==
    [k \in 1..Len(rows) |->
        [c \in Columns(rows) |-> IF c \in DOMAIN rows[k] THEN rows[k][c] ELSE NaN]]

\* len(frame[frame[column] == value])
CountWhere(frame, column, value) ==
    Cardinality({k \in 1..Len(frame) : frame[k][column] = value})

\* RowsWhere with the filter left out
RowsWhereUnfiltered(frame, column, value) == frame

\* frame[frame[column] == value]
RowsWhere(frame, column, value) ==
    SelectSeq(frame, LAMBDA row : row[column] = value)

RECURSIVE Gcd(_, _)
Gcd(a, b) == IF b = 0 THEN a ELSE Gcd(b, a % b)

\* a float, kept as the exact fraction num/den in lowest terms
Float(num, den) == [float |-> <<num \div Gcd(num, den), den \div Gcd(num, den)>>]

\* (a / b) * 100 on ints: ZeroDivisionError when b = 0
Percent(a, b) ==
    IF b = 0 THEN Raise("ZeroDivisionError") ELSE Float(100 * a, b)

IsNull(v) == v = None \/ v = NaN

\* Series.value_counts().to_dict(): the count of every non-null value
ValueCounts(frame, column) ==
    LET present == {frame[k][column] : k \in 1..Len(frame)}
        values == {v \in present : ~IsNull(v)}
    IN [v \in values |-> CountWhere(frame, column, v)]

NonNullInts(frame, column) ==
    {frame[k][column].int : k \in {j \in 1..Len(frame) : IsInt(frame[j][column])}}

SetMax(S) == CHOOSE x \in S : \A y \in S : y <= x
SetMin(S) == CHOOSE x \in S : \A y \in S : x <= y

RECURSIVE SumInts(_, _, _)
SumInts(frame, column, k) ==
    IF k = 0 THEN 0
    ELSE SumInts(frame, column, k - 1)
         + (IF IsInt(frame[k][column]) THEN frame[k][column].int ELSE 0)

CountInts(frame, column) ==
    Cardinality({k \in 1..Len(frame) : IsInt(frame[k][column])})

\* Series.max(), .min(), .mean() skip nulls and give NaN when nothing is left
SeriesMax(frame, column) ==
    IF NonNullInts(frame, column) = {} THEN NaN
    ELSE IntV(SetMax(NonNullInts(frame, column)))

SeriesMin(frame, column) ==
    IF NonNullInts(frame, column) = {} THEN NaN
    ELSE IntV(SetMin(NonNullInts(frame, column)))

SeriesMean(frame, column) ==
    IF CountInts(frame, column) = 0 THEN NaN
    ELSE LET total == SumInts(frame, column, Len(frame))
             n == CountInts(frame, column)
         IN IF total >= 0 THEN Float(total, n)
            ELSE [float |-> <<0 - Float(0 - total, n).float[1], Float(0 - total, n).float[2]>>]

----------------------------------------------------------------------------
(* get_statistics *)

\* a date as one number, to compare two of them
DateKey(dt) == dt.datetime[1] * 10000 + dt.datetime[2] * 100 + dt.datetime[3]

DatedRows(frame) ==
    {k \in 1..Len(frame) :
        "datetime" \in DOMAIN frame[k] /\ DOMAIN frame[k]["datetime"] = {"datetime"}}

\* CurrentRating with the table sorted by date first: the rating of the
\* record with the latest date
CurrentRatingLatestDate(frame) ==
    IF DatedRows(frame) = {} THEN
        (IF Len(frame) > 0 THEN frame[Len(frame)]["my_elo"] ELSE IntV(0))
    ELSE LET latest == CHOOSE k \in DatedRows(frame) :
                 \A j \in DatedRows(frame) :
                     \/ DateKey(frame[j]["datetime"]) < DateKey(frame[k]["datetime"])
                     \/ DateKey(frame[j]["datetime"]) = DateKey(frame[k]["datetime"]) /\ j <= k
         IN frame[latest]["my_elo"]

\* line 175: df['my_elo'].iloc[-1] if len(df) > 0 else 0
CurrentRating(frame) ==
    IF Len(frame) > 0 THEN frame[Len(frame)]["my_elo"] ELSE IntV(0)

\* lines 151-189: <<stats, df>>, or the exception that leaves the method;
\* head(10) of top_openings keeps every opening while there are at most 10
StatisticsOf(rows) ==
    LET frame == DataFrame(rows)
        total_games == Len(frame)
    IN IF "outcome" \notin Columns(rows) THEN Raise("KeyError")
       ELSE
       LET wins == CountWhere(frame, "outcome", win)
           losses == CountWhere(frame, "outcome", loss)
           draws == CountWhere(frame, "outcome", draw)
           win_rate == Percent(wins, total_games)
           white_games == RowsWhere(frame, "my_color", white)
           black_games == RowsWhere(frame, "my_color", black)
           white_wins == CountWhere(white_games, "outcome", win)
           black_wins == CountWhere(black_games, "outcome", win)
       IN IF IsRaise(win_rate) THEN win_rate
          ELSE
          <<[total_games |-> total_games,
             wins |-> wins,
             losses |-> losses,
             draws |-> draws,
             win_rate |-> win_rate,
             white_games |-> Len(white_games),
             white_wins |-> white_wins,
             white_win_rate |-> IF Len(white_games) > 0
                                THEN Percent(white_wins, Len(white_games))
                                ELSE IntV(0),
             black_games |-> Len(black_games),
             black_wins |-> black_wins,
             black_win_rate |-> IF Len(black_games) > 0
                                THEN Percent(black_wins, Len(black_games))
                                ELSE IntV(0),
             current_rating |-> CurrentRating(frame),
             highest_rating |-> SeriesMax(frame, "my_elo"),
             lowest_rating |-> SeriesMin(frame, "my_elo"),
             avg_rating |-> SeriesMean(frame, "my_elo"),
             time_control_breakdown |-> ValueCounts(frame, "time_category"),
             top_openings |-> ValueCounts(frame, "opening"),
             termination_breakdown |-> ValueCounts(frame, "termination")],
            frame>>

----------------------------------------------------------------------------
(* plot_performance_vs_rating_diff, lines 462-469: the rating difference    *)
(* and its bin                                                              *)

\* the finite edges of bins (line 466), between -inf and +inf
BinEdges == <<-200, -100, -50, 0, 50, 100, 200>>

\* labels, line 467
BinLabels ==
    <<Str(<<"<", "-", "2", "0", "0">>),
      Str(<<"-", "2", "0", "0", " ", "t", "o", " ", "-", "1", "0", "0">>),
      Str(<<"-", "1", "0", "0", " ", "t", "o", " ", "-", "5", "0">>),
      Str(<<"-", "5", "0", " ", "t", "o", " ", "0">>),
      Str(<<"0", " ", "t", "o", " ", "5", "0">>),
      Str(<<"5", "0", " ", "t", "o", " ", "1", "0", "0">>),
      Str(<<"1", "0", "0", " ", "t", "o", " ", "2", "0", "0">>),
      Str(<<">", "2", "0", "0">>)>>

\* pd.cut(x, bins, labels) with its default right=True: bin k is the
\* interval (bins[k], bins[k+1]], so x is past every edge strictly below it
CutRight(x) ==
    BinLabels[1 + Cardinality({e \in 1..Len(BinEdges) : BinEdges[e] < x})]

\* line 463 on one row: a null operand gives NaN
RatingDifference(row) ==
    IF IsInt(row["my_elo"]) /\ IsInt(row["opp_elo"])
    THEN IntV(row["my_elo"].int - row["opp_elo"].int)
    ELSE NaN

\* line 469 on one value: NaN stays NaN
RatingBin(difference) ==
    IF IsInt(difference) THEN CutRight(difference.int) ELSE NaN

\* lines 463 and 469: the two columns added to the table
WithRatingBins(frame) ==
    [k \in 1..Len(frame) |->
        [c \in DOMAIN frame[k] \cup {"rating_difference", "rating_bin"} |->
            IF c = "rating_difference" THEN RatingDifference(frame[k])
            ELSE IF c = "rating_bin" THEN RatingBin(RatingDifference(frame[k]))
            ELSE frame[k][c]]]

----------------------------------------------------------------------------
(* The input texts: concatenations of at most MaxBlocks game texts *)

Absent == << >>
Other == <<"B", "o", "b">>
Lower == <<"c", "a", "s", "s", "i", "n", "y">>

R10 == <<"1", "-", "0">>
R01 == <<"0", "-", "1">>
RDraw == <<"1", "/", "2", "-", "1", "/", "2">>
RStar == <<"*">>

\* the tag lines of the pairs <<tag, value>> whose value is present, one per line
RECURSIVE TagLines(_)
TagLines(pairs) ==
    IF pairs = << >> THEN << >>
    ELSE (IF Head(pairs)[2] = Absent THEN << >>
          ELSE <<TagLine(Head(pairs)[1], Head(pairs)[2]), NL>>)
         \o TagLines(Tail(pairs))

\* one exported game: the header, a blank line, the movetext, a blank line
GameText(pairs) ==
    <<EventLit, EventRest(<<"R">>), NL>> \o TagLines(pairs) \o <<NL, Moves, NL, NL>>

NameGame(w, b, r) == GameText(<<<<"White", w>>, <<"Black", b>>, <<"Result", r>>>>)

\* names and results, without ratings, dates or time controls; the last game
\* has a rating change that is a number for White only
NameGames ==
    {NameGame(nm[1], nm[2], r) :
        nm \in {<<username, Other>>, <<Other, username>>},
        r \in {R10, R01, RDraw, Absent}}
    \cup {NameGame(username, username, R10), NameGame(username, username, R01),
          NameGame(username, Absent, R01), NameGame(Absent, username, R01),
          NameGame(Other, Other, R10), NameGame(Absent, Absent, R01),
          NameGame(Lower, Other, R10), NameGame(Other, Lower, RStar),
          GameText(<<<<"White", username>>, <<"Black", Other>>, <<"Result", R10>>,
                     <<"WhiteRatingDiff", <<"+", "8">>>>,
                     <<"BlackRatingDiff", <<"x">>>>>>)}

RatingGame(w, we, be, wd, bd) ==
    GameText(<<<<"White", w>>, <<"Black", IF w = username THEN Other ELSE username>>,
               <<"Result", R10>>, <<"WhiteElo", we>>, <<"BlackElo", be>>,
               <<"WhiteRatingDiff", wd>>, <<"BlackRatingDiff", bd>>>>)

E1500 == <<"1", "5", "0", "0">>
E1480 == <<"1", "4", "8", "0">>
EUnknown == <<"?">>
DPlus8 == <<"+", "8">>
DMinus8 == <<"-", "8">>
DBad == <<"x">>

RatingGames ==
    {RatingGame(w, e[1], e[2], d[1], d[2]) :
        w \in {username, Other},
        e \in {<<E1500, E1480>>, <<EUnknown, E1480>>, <<E1500, EUnknown>>,
               <<Absent, E1480>>},
        d \in {<<DPlus8, DMinus8>>, <<DBad, DMinus8>>, <<Absent, Absent>>}}

TimeControlGame(tc) ==
    GameText(<<<<"White", username>>, <<"Black", Other>>, <<"Result", R01>>,
               <<"TimeControl", tc>>>>)

TimeControls ==
    {<<"6", "0", "+", "0">>, <<"1", "7", "9", "+", "0">>, <<"1", "8", "0", "+", "2">>,
     <<"4", "7", "9">>, <<"4", "8", "0", "+", "5">>, <<"1", "4", "9", "9", "+", "0">>,
     <<"1", "5", "0", "0", "+", "1", "0">>, <<"-", "5", "+", "0">>,
     <<" ", "6", "0", "+", "1">>, <<"1", "_", "8", "0", "0">>,
     <<"-">>, <<"+", "5">>, <<"a", "b", "c">>, <<"1", "/", "2", "+", "0">>,
     <<"1", "8", "0", "s", "+", "0">>, Absent}

TimeControlGames ==
    {TimeControlGame(tc) : tc \in TimeControls}
    \cup {NameGame(Other, Other, R10)}

DateGame(b, d) ==
    GameText(<<<<"White", Other>>, <<"Black", b>>, <<"Result", R01>>, <<"UTCDate", d>>>>)

Dates ==
    {<<"2", "0", "2", "4", ".", "0", "2", ".", "2", "9">>,
     <<"2", "0", "2", "3", ".", "0", "2", ".", "2", "9">>,
     <<"2", "0", "2", "4", ".", "1", ".", "5">>,
     <<"2", "0", "2", "4", ".", "1", "3", ".", "0", "1">>,
     <<"2", "0", "2", "4", "-", "0", "1", "-", "1", "5">>,
     <<"?", "?", "?", "?", ".", "?", "?", ".", "?", "?">>,
     <<"2", "4", ".", "0", "1", ".", "1", "5">>,
     <<"0", "0", "0", "0", ".", "0", "1", ".", "0", "1">>,
     <<"2", "0", "2", "4", ".", "0", "1", ".", "1", "5", ".">>,
     Absent}

DateGames ==
    {DateGame(b, d) : b \in {username, Other}, d \in Dates}

\* a white-space only text, a preamble without tags, and a game whose text
\* does not end in a blank line (the next game then stays in the same block)
LayoutGames ==
    {<<NL>>, <<SP, NL, NL>>, <<Moves, NL, NL>>,
     <<EventLit, EventRest(<<"R">>), NL, TagLine("White", username), NL,
       TagLine("Result", R10), NL>>,
     <<EventLit, EventRest(<<"R">>), NL, TagLine("White", << >>), NL,
       TagLine("Black", username), NL, TagLine("Result", R01), NL, NL>>}

MixedGames ==
    {NameGame(username, Other, R10), NameGame(Other, username, R10),
     NameGame(Other, username, RDraw), NameGame(Other, Other, R01),
     RatingGame(username, E1500, E1480, DPlus8, DMinus8),
     RatingGame(Other, E1500, E1480, DPlus8, DMinus8),
     RatingGame(username, EUnknown, E1480, Absent, Absent),
     TimeControlGame(<<"1", "8", "0", "+", "2">>),
     TimeControlGame(<<"a", "b", "c">>),
     DateGame(username, <<"2", "0", "2", "4", ".", "0", "2", ".", "2", "9">>),
     DateGame(username, <<"2", "0", "2", "3", ".", "0", "2", ".", "2", "9">>)}
    \cup LayoutGames

\* games with both ratings, some dated: the rating differences lie on and
\* next to the edges of the bins
RatedGame(w, we, be, d) ==
    GameText(<<<<"White", w>>, <<"Black", IF w = username THEN Other ELSE username>>,
               <<"Result", R10>>, <<"WhiteElo", we>>, <<"BlackElo", be>>,
               <<"UTCDate", d>>>>)

E1300 == <<"1", "3", "0", "0">>
E1400 == <<"1", "4", "0", "0">>
E1450 == <<"1", "4", "5", "0">>
E1499 == <<"1", "4", "9", "9">>
E1550 == <<"1", "5", "5", "0">>
E1600 == <<"1", "6", "0", "0">>
E1700 == <<"1", "7", "0", "0">>
E1701 == <<"1", "7", "0", "1">>
Feb29 == <<"2", "0", "2", "4", ".", "0", "2", ".", "2", "9">>
Jan5 == <<"2", "0", "2", "4", ".", "1", ".", "5">>

RatedGames ==
    {RatedGame(username, E1500, be, Absent) :
        be \in {E1500, E1700, E1300, E1450, E1550, E1400, E1600, E1499, E1701, Absent}}
    \cup {RatedGame(Other, E1500, E1300, Absent), RatedGame(Other, E1300, E1500, Absent),
          RatedGame(username, E1500, E1480, Feb29), RatedGame(username, E1480, E1500, Jan5),
          RatedGame(Other, E1500, Absent, Jan5)}

RECURSIVE Concat(_)
Concat(texts) == IF texts = << >> THEN << >> ELSE Head(texts) \o Concat(Tail(texts))

Texts(gameTexts) ==
    {Concat(seq) : seq \in UNION {[1..n -> gameTexts] : n \in 0..MaxBlocks}}

----------------------------------------------------------------------------
(* The analyzer as a state machine *)

\* __init__ (lines 21-24), before main calls parse_pgn
InitWith(gameTexts) ==
    /\ content \in Texts(gameTexts)
    /\ game_texts = << >>
    /\ i = 0
    /\ games = << >>
    /\ pc = "new"
    /\ stats = None
    /\ df = None
    /\ raised = None
    /\ runs = 0

Init == InitWith(MixedGames)
InitNames == InitWith(NameGames)
InitRatings == InitWith(RatingGames)
InitTimeControls == InitWith(TimeControlGames)
InitDates == InitWith(DateGames)
InitRated == InitWith(RatedGames)

\* parse_pgn, lines 28-34: read the file and split it; a caller may run the
\* pipeline again on the same object once get_statistics has returned
ParsePgnSplit ==
    /\ pc \in {"new", "done"}
    /\ runs < MaxRuns
    /\ game_texts' = ReSplit(content)
    /\ i' = 1
    /\ pc' = "parsing"
    /\ runs' = runs + 1
    /\ UNCHANGED <<content, games, stats, df, raised>>

\* BlockText without line 40: the block as re.split left it
BlockTextBare(blocks, k) == blocks[k]

\* the block of iteration k as parse_game sees it, lines 37-40
BlockText(blocks, k) == IF k = 1 THEN blocks[k] ELSE <<EventLit>> \o blocks[k]

\* parse_pgn, lines 36-47: one iteration of the loop
ParsePgnBlock ==
    /\ pc = "parsing"
    /\ i <= Len(game_texts)
    /\ LET game_text == BlockText(game_texts, i)
       IN IF IsBlank(game_text)
          THEN /\ i' = i + 1
               /\ UNCHANGED <<games, pc, raised>>
          ELSE LET game_data == ParseGame(game_text)
               IN IF IsRaise(game_data)
                  THEN /\ pc' = "parse_pgn_raised"
                       /\ raised' = game_data
                       /\ UNCHANGED <<games, i>>
                  ELSE /\ games' = IF game_data # None
                                   THEN Append(games, game_data)
                                   ELSE games
                       /\ i' = i + 1
                       /\ UNCHANGED <<pc, raised>>
    /\ UNCHANGED <<content, game_texts, stats, df, runs>>

\* parse_pgn, lines 49-50: the loop is over
ParsePgnReturn ==
    /\ pc = "parsing"
    /\ i > Len(game_texts)
    /\ pc' = "parsed"
    /\ UNCHANGED <<content, game_texts, i, games, stats, df, raised, runs>>

\* get_statistics, lines 149-189, called by main after parse_pgn (line 648)
GetStatistics ==
    /\ pc = "parsed"
    /\ LET result == StatisticsOf(games)
       IN IF IsRaise(result)
          THEN /\ pc' = "get_statistics_raised"
               /\ raised' = result
               /\ UNCHANGED <<stats, df>>
          ELSE /\ pc' = "done"
               /\ stats' = result[1]
               /\ df' = result[2]
               /\ UNCHANGED raised
    /\ UNCHANGED <<content, game_texts, i, games, runs>>

\* plot_performance_vs_rating_diff, lines 462-469, called on the table that
\* get_statistics returned (main, line 666; create_visualizations, line 216)
PlotPerformanceVsRatingDiff ==
    /\ pc = "done"
    /\ df' = WithRatingBins(df)
    /\ UNCHANGED <<content, game_texts, i, games, pc, stats, raised, runs>>

Next ==
    \/ ParsePgnSplit
    \/ ParsePgnBlock
    \/ ParsePgnReturn
    \/ GetStatistics
    \/ PlotPerformanceVsRatingDiff

Spec == Init /\ [][Next]_vars
SpecNames == InitNames /\ [][Next]_vars
SpecRatings == InitRatings /\ [][Next]_vars
SpecTimeControls == InitTimeControls /\ [][Next]_vars
SpecDates == InitDates /\ [][Next]_vars
SpecRated == InitRated /\ [][Next]_vars

----------------------------------------------------------------------------
(* Definitions shared by the properties *)

\* the blocks parse_pgn has gone through in the current call
Processed ==
    1..(IF pc \in {"parsing", "parse_pgn_raised"} THEN i - 1 ELSE Len(game_texts))

Block(k) == BlockText(game_texts, k)

\* the subject is the block's White name or its Black name
Named(game_text) ==
    \/ SearchTag(game_text, "White") = Str(username)
    \/ SearchTag(game_text, "Black") = Str(username)

InGames(record) == \E n \in 1..Len(games) : games[n] = record

\* the record of games that was made from game_text: its 13 tag fields are
\* the block's
FromBlock(record, game_text) ==
    \A key \in DOMAIN ExtractTags(game_text) : record[key] = ExtractTags(game_text)[key]

\* get_statistics has been called and is over
StatisticsOver == pc \in {"done", "get_statistics_raised"}

\* a rate as the pair <<numerator, denominator>>
RateValue(rate) == IF IsInt(rate) THEN <<rate.int, 1>> ELSE rate.float

RateInRange(rate) ==
    /\ IsInt(rate) \/ DOMAIN rate = {"float"}
    /\ RateValue(rate)[2] > 0
    /\ 0 <= RateValue(rate)[1]
    /\ RateValue(rate)[1] <= 100 * RateValue(rate)[2]

\* rate = 100 * w / g for a group of g > 0 games, 0 for an empty group
RateIs(rate, w, g) ==
    IF g > 0 THEN RateValue(rate)[1] * g = 100 * w * RateValue(rate)[2]
    ELSE RateValue(rate)[1] = 0

----------------------------------------------------------------------------
(* C1: for every input text, the empty one and the one whose blocks are all *)
(* discarded included, get_statistics after parse_pgn returns a summary     *)
(* with total_games = wins + losses + draws.                                *)

C1_TotalIsSumForEveryInput ==
    StatisticsOver =>
        /\ pc = "done"
        /\ stats.total_games = stats.wins + stats.losses + stats.draws

\* what the code does keep: the sum, whenever a summary is returned
C1_TotalIsSumWhenReturned ==
    pc = "done" => stats.total_games = stats.wins + stats.losses + stats.draws

----------------------------------------------------------------------------
(* C2: a failure while extracting one block is caught inside parse_game:    *)
(* the block gives no record, parse_pgn never raises and goes on with the   *)
(* later blocks, and every later well-formed block of the subject is in     *)
(* the games list.                                                          *)

Fails(game_text) == IsRaise(ParseGameBody(game_text))

WellFormed(game_text) ==
    /\ ~IsBlank(game_text)
    /\ Named(game_text)
    /\ ~Fails(game_text)

C2_FailureSkipsOneBlock ==
    /\ pc # "parse_pgn_raised"
    /\ pc = "parsing" => i <= Len(game_texts) + 1
    /\ \A j \in Processed : Fails(Block(j)) =>
          /\ \A n \in 1..Len(games) : ~FromBlock(games[n], Block(j))
          /\ \A k \in Processed : (j < k /\ WellFormed(Block(k))) =>
                InGames(ParseGameBody(Block(k)))
    /\ pc \in {"parsed", "done", "get_statistics_raised"} =>
          Processed = 1..Len(game_texts)

C2_Witness ==
    /\ pc = "parsed"
    /\ \E j, k \in Processed :
          /\ j < k
          /\ Fails(Block(j))
          /\ WellFormed(Block(k))
          /\ InGames(ParseGameBody(Block(k)))

----------------------------------------------------------------------------
(* C3: when the games list is empty (empty text, or every block discarded), *)
(* get_statistics raises nothing and returns total_games = 0, wins =        *)
(* losses = draws = 0 and every rate 0.                                     *)

C3_EmptyGamesGiveZeroSummary ==
    (StatisticsOver /\ games = << >>) =>
        /\ raised = None
        /\ pc = "done"
        /\ stats.total_games = 0
        /\ stats.wins = 0 /\ stats.losses = 0 /\ stats.draws = 0
        /\ RateValue(stats.win_rate)[1] = 0
        /\ RateValue(stats.white_win_rate)[1] = 0
        /\ RateValue(stats.black_win_rate)[1] = 0

----------------------------------------------------------------------------
(* C4: for every record sequence each rate of the summary is defined, lies  *)
(* in [0, 100], is 100 * wins / games of its group when the group is not    *)
(* empty and 0 when it is.                                                  *)

C4_RatesDefinedForEveryInput ==
    StatisticsOver =>
        /\ pc = "done"
        /\ RateInRange(stats.win_rate)
        /\ RateInRange(stats.white_win_rate)
        /\ RateInRange(stats.black_win_rate)
        /\ RateIs(stats.win_rate, stats.wins, stats.total_games)
        /\ RateIs(stats.white_win_rate, stats.white_wins, stats.white_games)
        /\ RateIs(stats.black_win_rate, stats.black_wins, stats.black_games)

\* what the code does keep: the rates of every summary it returns
C4_RatesOfReturnedSummary ==
    pc = "done" =>
        /\ RateInRange(stats.win_rate)
        /\ RateInRange(stats.white_win_rate)
        /\ RateInRange(stats.black_win_rate)
        /\ RateIs(stats.win_rate, stats.wins, stats.total_games)
        /\ RateIs(stats.white_win_rate, stats.white_wins, stats.white_games)
        /\ RateIs(stats.black_win_rate, stats.black_wins, stats.black_games)

----------------------------------------------------------------------------
(* C5: parse_game keeps a block as a record if and only if the subject is   *)
(* its White name or its Black name; when it is both the record is white's  *)
(* (white rating and rating change); when it is neither there is no record  *)
(* and no error.                                                            *)

NamedBlocks == {k \in Processed : ~IsBlank(Block(k)) /\ Named(Block(k))}

C5_KeptIffSubjectNamed ==
    /\ pc # "parse_pgn_raised"
    /\ runs = 1 => Len(games) = Cardinality(NamedBlocks)
    /\ \A k \in Processed \ NamedBlocks :
          \A n \in 1..Len(games) : ~FromBlock(games[n], Block(k))
    /\ \A k \in NamedBlocks : \E n \in 1..Len(games) : FromBlock(games[n], Block(k))
    /\ \A n \in 1..Len(games) :
          games[n].white = Str(username) =>
              /\ games[n].my_color = white
              /\ games[n].white_elo # None => games[n].my_elo # None
              /\ games[n].white_rating_diff # None => games[n].rating_diff # None

\* what the code does keep: no record without the subject's name, white first
C5_KeptOnlyIfSubjectNamed ==
    /\ pc # "parse_pgn_raised"
    /\ runs = 1 => Len(games) <= Cardinality(NamedBlocks)
    /\ \A k \in Processed \ NamedBlocks :
          \A n \in 1..Len(games) : ~FromBlock(games[n], Block(k))
    /\ \A n \in 1..Len(games) :
          /\ games[n].white = Str(username) \/ games[n].black = Str(username)
          /\ games[n].white = Str(username) => games[n].my_color = white

----------------------------------------------------------------------------
(* C6: a kept record's outcome is win exactly when the result gives the     *)
(* game to the subject's colour, loss exactly when it gives it to the other *)
(* colour, draw otherwise (an absent Result included); and swapping the     *)
(* White and Black names together with "1-0" and "0-1" leaves the outcome   *)
(* unchanged, unless both names are the subject.                            *)

SwapLine(tok) ==
    IF DOMAIN tok # {"tag", "val"} THEN tok
    ELSE IF tok.tag = "White" THEN TagLine("Black", tok.val)
    ELSE IF tok.tag = "Black" THEN TagLine("White", tok.val)
    ELSE IF tok.tag = "Result" /\ tok.val = R10 THEN TagLine("Result", R01)
    ELSE IF tok.tag = "Result" /\ tok.val = R01 THEN TagLine("Result", R10)
    ELSE tok

SwapBlock(game_text) == [k \in 1..Len(game_text) |-> SwapLine(game_text[k])]

BothNamed(game_text) ==
    /\ SearchTag(game_text, "White") = Str(username)
    /\ SearchTag(game_text, "Black") = Str(username)

OutcomeByColour(record) ==
    /\ record.outcome \in {win, loss, draw}
    /\ record.outcome = win <=>
          \/ record.my_color = white /\ record.result = Str(R10)
          \/ record.my_color = black /\ record.result = Str(R01)
    /\ record.outcome = loss <=>
          \/ record.my_color = white /\ record.result = Str(R01)
          \/ record.my_color = black /\ record.result = Str(R10)

\* both the block and the swapped block are kept
BothKept(game_text) ==
    ParseGame(game_text) # None /\ ParseGame(SwapBlock(game_text)) # None

SameOutcomeSwapped(game_text) ==
    /\ InGames(ParseGame(game_text))
    /\ ParseGame(SwapBlock(game_text)).outcome = ParseGame(game_text).outcome

----------------------------------------------------------------------------
(* C7: for a kept record whose time control has the integer base time b     *)
(* before the first "+", time_category is bullet if b < 180, blitz if       *)
(* 180 <= b < 480, rapid if 480 <= b < 1500, classical if b >= 1500; an     *)
(* absent time control or "-" gives unknown.                                *)

CategoryOfBase(b) ==
    IF b < 180 THEN bullet
    ELSE IF b < 480 THEN blitz
    ELSE IF b < 1500 THEN rapid
    ELSE classical

BaseTime(tc) == PyIntOf(PySplit(tc.str, "+")[1])

C7_TimeCategoryByBaseTime ==
    \A n \in 1..Len(games) :
        LET tc == games[n].time_control
            cat == games[n].time_category
        IN /\ (tc = None \/ tc = Dash) => cat = unknown
           /\ (tc # None /\ tc # Dash /\ IsInt(BaseTime(tc))) =>
                 cat = CategoryOfBase(BaseTime(tc).int)
           /\ tc = Str(<<"1", "7", "9", "+", "0">>) => cat = bullet
           /\ tc = Str(<<"1", "8", "0", "+", "2">>) => cat = blitz
           /\ tc = Str(<<"4", "7", "9">>) => cat = blitz
           /\ tc = Str(<<"4", "8", "0", "+", "5">>) => cat = rapid
           /\ tc = Str(<<"1", "4", "9", "9", "+", "0">>) => cat = rapid
           /\ tc = Str(<<"1", "5", "0", "0", "+", "1", "0">>) => cat = classical

C7_Witness ==
    /\ pc = "parsed"
    /\ \E m, n \in 1..Len(games) :
          /\ games[m].time_control = Str(<<"1", "8", "0", "+", "2">>)
          /\ games[m].time_category = blitz
          /\ games[n].time_control = Str(<<"1", "5", "0", "0", "+", "1", "0">>)
          /\ games[n].time_category = classical

----------------------------------------------------------------------------
(* C8: a block of the subject with non-numeric text in a rating or rating   *)
(* change tag still gives a record: only that field is null, and the record *)
(* is counted in total_games.                                               *)

NonNumeric(v) == v # None /\ IsRaise(PyIntOf(v.str))

NullWhereNonNumeric(record, coloured) ==
    /\ NonNumeric(coloured.my_elo) => record.my_elo = None
    /\ NonNumeric(coloured.opp_elo) => record.opp_elo = None
    /\ NonNumeric(coloured.rating_diff) => record.rating_diff = None

C8_NonNumericRatingKeepsRecord ==
    /\ \A k \in NamedBlocks :
          LET coloured == DetermineColor(ExtractTags(Block(k)))
          IN \E n \in 1..Len(games) :
                 /\ FromBlock(games[n], Block(k))
                 /\ NullWhereNonNumeric(games[n], coloured)
    /\ (pc = "done" /\ runs = 1) => stats.total_games = Cardinality(NamedBlocks)

----------------------------------------------------------------------------
(* C9: a block of the subject whose time control does not start with an     *)
(* integer still gives a record, with time_category unknown.                *)

MalformedTimeControl(game_text) ==
    LET tc == SearchTag(game_text, "TimeControl")
    IN tc # None /\ tc # Dash /\ IsRaise(BaseTime(tc))

C9_MalformedTimeControlIsUnknown ==
    \A k \in NamedBlocks :
        MalformedTimeControl(Block(k)) =>
            \E n \in 1..Len(games) :
                /\ FromBlock(games[n], Block(k))
                /\ games[n].time_category = unknown

----------------------------------------------------------------------------
(* C10: a block of the subject without a date tag gives a kept record whose *)
(* datetime field is present and null, counted in the tallies; a date that  *)
(* is not YYYY.MM.DD gives datetime null too.                               *)

Undated(game_text) == SearchTag(game_text, "UTCDate") = None

Unparsable(game_text) ==
    /\ ~Undated(game_text)
    /\ IsRaise(Strptime(SearchTag(game_text, "UTCDate").str))

C10_UndatedRecordHasNullDatetime ==
    /\ \A k \in NamedBlocks :
          (Undated(Block(k)) \/ Unparsable(Block(k))) =>
              \E n \in 1..Len(games) :
                  /\ FromBlock(games[n], Block(k))
                  /\ "datetime" \in DOMAIN games[n]
                  /\ games[n].datetime = None
    /\ (pc = "done" /\ runs = 1) => stats.total_games = Cardinality(NamedBlocks)

\* what the code does keep: the record is kept and counted; the datetime is
\* null for an unparsable date, and the key is missing without a date tag
C10_UndatedRecordKept ==
    /\ \A k \in NamedBlocks :
          \E n \in 1..Len(games) :
              /\ FromBlock(games[n], Block(k))
              /\ Unparsable(Block(k)) => games[n].datetime = None
              /\ Undated(Block(k)) <=> "datetime" \notin DOMAIN games[n]
    /\ (pc = "done" /\ runs = 1) => stats.total_games = Cardinality(NamedBlocks)

----------------------------------------------------------------------------
(* C11: running parse_pgn and get_statistics twice on the same text gives   *)
(* the same games list, record table and summary the second time, also      *)
(* when both runs use the same ChessAnalyzer object: nothing is carried     *)
(* over from the earlier run.                                               *)

\* the new table has the rows of the old one, column by column
SameTable(old, new) ==
    /\ Len(new) = Len(old)
    /\ \A k \in 1..Len(new) : \A c \in DOMAIN new[k] : new[k][c] = old[k][c]

\* get_statistics returns for the second (or a later) time on this object
SecondStatistics == pc = "parsed" /\ runs >= 2 /\ pc' = "done"

C11_SecondRunEqualsFirst ==
    [][SecondStatistics => (stats' = stats /\ SameTable(df, df'))]_vars

\* what the code does keep: a run on a fresh object depends on the text only
KeptBlocks == {k \in Processed : ~IsBlank(Block(k)) /\ ParseGame(Block(k)) # None}

C11_FirstRunFromTextOnly ==
    (pc \in {"parsed", "done"} /\ runs = 1) =>
        /\ Len(games) = Cardinality(KeptBlocks)
        /\ \A k \in KeptBlocks : InGames(ParseGame(Block(k)))
        /\ game_texts = ReSplit(content)

----------------------------------------------------------------------------
(* C12: for a record with integer my_elo and opp_elo, the bucket of         *)
(* d = my_elo - opp_elo is the one of (-inf,-200), [-200,-100), [-100,-50), *)
(* [-50,0), [0,50), [50,100), [100,200), [200,+inf) that contains d, each   *)
(* closed below and open above; every d is in exactly one bucket.           *)

\* the index of the claimed bucket: the edges at or below d are passed
ClaimedBucket(d) ==
    IF d < -200 THEN 1
    ELSE IF d < -100 THEN 2
    ELSE IF d < -50 THEN 3
    ELSE IF d < 0 THEN 4
    ELSE IF d < 50 THEN 5
    ELSE IF d < 100 THEN 6
    ELSE IF d < 200 THEN 7
    ELSE 8

Binned == pc = "done" /\ df # << >> /\ "rating_bin" \in DOMAIN df[1]

RatedRows == {k \in 1..Len(df) : IsInt(df[k]["my_elo"]) /\ IsInt(df[k]["opp_elo"])}

C12_BucketClosedBelow ==
    Binned =>
        \A k \in RatedRows :
            /\ df[k]["rating_difference"] = IntV(df[k]["my_elo"].int - df[k]["opp_elo"].int)
            /\ df[k]["rating_bin"] = BinLabels[ClaimedBucket(df[k]["rating_difference"].int)]

\* what the code does keep: one bucket for every difference, the bucket
\* closed above and open below; a record without both ratings has none
C12_BucketClosedAbove ==
    Binned =>
        /\ \A k \in RatedRows :
              LET d == df[k]["my_elo"].int - df[k]["opp_elo"].int
              IN /\ df[k]["rating_difference"] = IntV(d)
                 /\ \E b \in 1..Len(BinLabels) :
                       /\ df[k]["rating_bin"] = BinLabels[b]
                       /\ b > 1 => BinEdges[b - 1] < d
                       /\ b < Len(BinLabels) => d <= BinEdges[b]
        /\ \A k \in (1..Len(df)) \ RatedRows : df[k]["rating_bin"] = NaN

----------------------------------------------------------------------------
(* C13: for a non-empty record sequence current_rating is the my_elo of the *)
(* last record in parse order, the last kept block of the text, whatever    *)
(* the dates; records are appended in the order of their blocks and are not *)
(* sorted before get_statistics reads them.                                 *)

\* the place of kept block k among the kept blocks
Rank(k) == Cardinality({j \in KeptBlocks : j <= k})

LastKept == CHOOSE k \in KeptBlocks : \A j \in KeptBlocks : j <= k

C13_CurrentRatingIsLastParsed ==
    /\ (pc \in {"parsing", "parsed", "done"} /\ runs = 1) =>
          /\ Len(games) = Cardinality(KeptBlocks)
          /\ \A k \in KeptBlocks : games[Rank(k)] = ParseGame(Block(k))
    /\ pc = "done" =>
          /\ KeptBlocks # {}
          /\ stats.current_rating = ParseGame(Block(LastKept)).my_elo
          /\ stats.current_rating = games[Len(games)].my_elo

\* the last record is dated before the first one and has another rating
C13_Witness ==
    /\ pc = "done"
    /\ Len(games) = 2
    /\ "datetime" \in DOMAIN games[1] /\ "datetime" \in DOMAIN games[2]
    /\ games[1].datetime = DateTime(2024, 2, 29)
    /\ games[2].datetime = DateTime(2024, 1, 5)
    /\ games[1].my_elo = IntV(1500)
    /\ stats.current_rating = IntV(1480)

----------------------------------------------------------------------------
(* C14: parse_pgn splits the text at every blank line that "[Event"         *)
(* follows, puts "[Event" back in front of every block after the first,     *)
(* leaves the first block as it is and skips, without error, every block    *)
(* that is empty or white space only; so there are never more records than  *)
(* non-blank blocks.                                                        *)

\* the blocks put together again, the separator between two of them
RECURSIVE JoinBlocks(_)
JoinBlocks(blocks) ==
    IF Len(blocks) = 0 THEN << >>
    ELSE IF Len(blocks) = 1 THEN blocks[1]
    ELSE blocks[1] \o Separator \o JoinBlocks(Tail(blocks))

SeparatorPlaces(text) == {k \in 1..Len(text) : SepAt(text, k)}

\* the block of iteration k, as the claim has it
RestoredBlock(k) ==
    IF k = 1 THEN game_texts[1] ELSE <<EventLit>> \o game_texts[k]

NonBlankBlocks == {k \in Processed : ~IsBlank(RestoredBlock(k))}

C14_SplitAndRestoreBlocks ==
    /\ pc # "parse_pgn_raised"
    /\ pc # "new" =>
          /\ JoinBlocks(game_texts) = content
          /\ Len(game_texts) = 1 + Cardinality(SeparatorPlaces(content))
          /\ \A k \in 1..Len(game_texts) : SeparatorPlaces(game_texts[k]) = {}
          /\ \A k \in Processed :
                (~IsBlank(RestoredBlock(k)) /\ ParseGame(RestoredBlock(k)) # None) =>
                    InGames(ParseGame(RestoredBlock(k)))
          /\ \A n \in 1..Len(games) :
                \E k \in 1..Len(game_texts) :
                    ~IsBlank(RestoredBlock(k)) /\ games[n] = ParseGame(RestoredBlock(k))
          /\ runs = 1 => Len(games) <= Cardinality(NonBlankBlocks)

\* a blank first block is skipped, and the second block has its Event tag
C14_Witness ==
    /\ pc = "parsed"
    /\ Len(game_texts) = 2
    /\ game_texts[1] # << >> /\ IsBlank(game_texts[1])
    /\ Len(games) = 1
    /\ games[1].event = Str(<<"R">>)
    /\ games[1] = ParseGame(<<EventLit>> \o game_texts[2])

----------------------------------------------------------------------------
(* C15: every record of the games list has my_color white or black, an      *)
(* outcome win, loss or draw and a time_category bullet, blitz, rapid,      *)
(* classical or unknown; so a summary has white_games + black_games =       *)
(* total_games and white_wins + black_wins = wins.                          *)

C15_RecordsAndColourSums ==
    /\ \A n \in 1..Len(games) :
          /\ games[n].my_color \in {white, black}
          /\ games[n].outcome \in {win, loss, draw}
          /\ "time_category" \in DOMAIN games[n]
          /\ games[n].time_category \in {bullet, blitz, rapid, classical, unknown}
    /\ pc = "done" =>
          /\ stats.white_games + stats.black_games = stats.total_games
          /\ stats.white_wins + stats.black_wins = stats.wins

C15_Witness ==
    /\ pc = "done"
    /\ stats.white_games >= 1 /\ stats.black_games >= 1
    /\ stats.white_wins >= 1
    /\ stats.wins < stats.total_games
    /\ \E n \in 1..Len(games) :
          games[n].my_color = black /\ games[n].time_category = unknown

====
